---- MODULE Spec2Model ----
(***************************************************************************)
(* Model of the chartability pipeline of synthea-fhir-starter:             *)
(*   scripts/identify_chartable_patients.py  (fetcher, classifier,         *)
(*   grouper) and scripts/create_charts.py.                                *)
(*                                                                         *)
(* Each function of the source is one action; its body is an operator      *)
(* translated statement by statement.  The module holds several            *)
(* specifications over the same variables, one per entry point:            *)
(*   SpecGroup     group_chartables                                        *)
(*   SpecClassify  get_chartable_codes_for_patient(obs=...)                *)
(*   SpecFetch     get_chartable_codes_for_patient(obs=None), i.e. with    *)
(*                 get_observations_for_patient and fhir_get               *)
(*   SpecCounts    get_observation_counts_for_patient                      *)
(*   SpecFilename  _safe_filename                                          *)
(*   SpecMaterialize  the classifier, then fetch_timeseries_for_codes      *)
(***************************************************************************)
EXTENDS Integers, Sequences, FiniteSets, TLC

VARIABLES
    pc,               \* position of the modelled call
    chartable_list,   \* group_chartables: argument
    include_surveys,  \* group_chartables: argument
    groups,           \* group_chartables: returned dict, title -> list
    obs,              \* get_chartable_codes_for_patient: argument obs
    min_points,       \* get_chartable_codes_for_patient: argument
    min_span_days,    \* get_chartable_codes_for_patient: argument
    result,           \* get_chartable_codes_for_patient: outcome
    raised,           \* second call with raised thresholds: the thresholds
    result2,          \* second call with raised thresholds: outcome
    server,           \* FHIR server: the stored Observations of the patient
    categories,       \* get_chartable_codes_for_patient: argument
    sample,           \* get_chartable_codes_for_patient: argument
    cat_i,            \* index of the category being fetched
    page_i,           \* index of the page the next request asks for
    fetched,          \* get_observations_for_patient: local out
    returns,          \* sizes of the lists get_observations_for_patient returned
    all_obs,          \* get_chartable_codes_for_patient: local obs
    requests,         \* log of the requests sent: <<cat, page, status>>
    chart_title,      \* _safe_filename: argument, a sequence of characters
    platform,         \* the os module in use: "posix" or "nt"
    filename,         \* _safe_filename: returned string
    seen,             \* get_observation_counts_for_patient: local seen
    counts,           \* get_observation_counts_for_patient: local counts
    dateutil,         \* whether "from dateutil import parser" succeeded
    code_set,         \* fetch_timeseries_for_codes: argument codes
    series            \* fetch_timeseries_for_codes: outcome

vars == <<pc, chartable_list, include_surveys, groups, obs, min_points,
          min_span_days, result, raised, result2, server, categories,
          sample, cat_i, page_i, fetched, returns, all_obs, requests,
          chart_title, platform, filename, seen, counts, dateutil,
          code_set, series>>

groupVars == <<chartable_list, include_surveys, groups>>
classifyVars == <<obs, min_points, min_span_days, result, raised, result2>>
fetchVars == <<server, categories, sample, cat_i, page_i, fetched, returns,
               all_obs, requests>>
filenameVars == <<chart_title, platform, filename>>
countVars == <<seen, counts>>
materializeVars == <<dateutil, code_set, series>>

(***************************************************************************)
(* Bounds of the model.                                                    *)
(***************************************************************************)
MaxSeries == 3      \* longest chartable_list given to group_chartables
MaxObs == 3         \* longest obs list given to the classifier
MaxLongObs == 5     \* longest obs list drawn from the short record set
MaxMinPoints == 3   \* largest min_points tried
MaxStored == 3      \* most Observations the server holds for the patient
MaxCategories == 2  \* longest categories list
MaxSample == 3      \* largest sample (count) tried
PageSize == 2       \* entries per page the server sends (_count)
MaxTitleLen == 4    \* longest enumerated chart title
MaxSeriesObs == 3   \* longest record list given to both extractions

(***************************************************************************)
(* Generic helpers.                                                        *)
(***************************************************************************)
SeqsUpTo(S, n) == UNION {[1..k -> S] : k \in 0..n}

Range(s) == {s[i] : i \in DOMAIN s}

(***************************************************************************)
(* group_chartables                                                        *)
(***************************************************************************)
BP_SBP == "8480-6"
BP_DBP == "8462-4"

SURVEYS == {"72514-3", "55758-7", "70274-6", "76504-0", "63512-8",
            "63586-2", "59460-6"}

\* The titles are the source's, with its three non-ASCII characters written
\* in ASCII (superscript and subscript 2 as "2", the en dash as "-").
vit_titles == <<
    <<"8867-4", "Heart Rate (/min)">>,
    <<"9279-1", "Respiratory Rate (/min)">>,
    <<"8302-2", "Height (cm)">>,
    <<"29463-7", "Weight (kg)">>,
    <<"39156-5", "BMI (kg/m2)">> >>

lipid_titles == <<
    <<"2093-3", "Cholesterol (mg/dL)">>,
    <<"2085-9", "HDL (mg/dL)">>,
    <<"18262-6", "LDL (mg/dL)">>,
    <<"2571-8", "Triglycerides (mg/dL)">> >>

bmp_titles == <<
    <<"2339-0", "Glucose (mg/dL)">>,
    <<"2947-0", "Sodium (mmol/L)">>,
    <<"6298-4", "Potassium (mmol/L)">>,
    <<"2069-3", "Chloride (mmol/L)">>,
    <<"20565-8", "CO2 (mmol/L)">>,
    <<"6299-2", "BUN (mg/dL)">>,
    <<"38483-4", "Creatinine (mg/dL)">>,
    <<"49765-1", "Calcium (mg/dL)">> >>

liver_titles == <<
    <<"1742-6", "ALT (U/L)">>,
    <<"1920-8", "AST (U/L)">>,
    <<"6768-6", "ALP (U/L)">>,
    <<"1975-2", "Bilirubin (mg/dL)">>,
    <<"1751-7", "Albumin (g/dL)">>,
    <<"2885-2", "Total Protein (g/dL)">>,
    <<"10834-0", "Globulin (g/L)">> >>

survey_titles == <<
    <<"72514-3", "Pain score (0-10)">>,
    <<"55758-7", "PHQ-2 total">>,
    <<"70274-6", "GAD-7 total">>,
    <<"76504-0", "HARK total">>,
    <<"63512-8", "Household size">>,
    <<"63586-2", "Household income (per annum)">>,
    <<"59460-6", "Morse fall risk total">> >>

\* A series dict {code, label, units}; count and span_days play no part in
\* the grouping and are left out.
Series(c, l, u) == [code |-> c, label |-> l, units |-> u]

\* The series the inputs are drawn from: the codes of every priority step,
\* two series of one code, codes no step knows, with and without units,
\* two leftover codes with the same label and unit, and a leftover code
\* whose label and unit spell the title of a priority group.
CandidateSeries == {
    Series("8480-6", "Systolic Blood Pressure", <<"mm[Hg]">>),
    Series("8480-6", "SBP", <<>>),
    Series("8462-4", "Diastolic Blood Pressure", <<"mm[Hg]">>),
    Series("8867-4", "Heart rate", <<"/min">>),
    Series("2093-3", "Total Cholesterol", <<"mg/dL">>),
    Series("38483-4", "Creatinine", <<"mg/dL">>),
    Series("33914-3", "eGFR", <<"mL/min">>),
    Series("1742-6", "ALT", <<"U/L">>),
    Series("72514-3", "Pain severity", <<"{score}">>),
    Series("718-7", "Hemoglobin", <<"g/dL", "g/L">>),
    Series("20509-6", "Hemoglobin", <<"g/dL">>),
    Series("4548-4", "Hemoglobin A1c", <<>>),
    Series("85354-9", "Blood Pressure", <<"mmHg">>) }

\* by_code = {d["code"]: d for d in chartable_list}: the last series of a
\* code wins.
InByCode(list, c) == \E i \in DOMAIN list : list[i].code = c

by_code(list, c) ==
    list[CHOOSE i \in DOMAIN list :
            /\ list[i].code = c
            /\ \A j \in DOMAIN list : list[j].code = c => j <= i]

\* The locals of group_chartables: groups (defaultdict(list)) and used_codes.
EmptyGrouping == [groups |-> [t \in {} |-> <<>>], used_codes |-> {}]

\* groups[title] += items ; used_codes.update(codes)
AddToGroup(g, title, items, codes) ==
    [groups |-> [t \in (DOMAIN g.groups) \cup {title} |->
                    IF t = title
                    THEN (IF t \in DOMAIN g.groups THEN g.groups[t] ELSE <<>>)
                         \o items
                    ELSE g.groups[t]],
     used_codes |-> g.used_codes \cup codes]

\* 1) Blood pressure (combine)
StepBloodPressure(list, g) ==
    IF InByCode(list, BP_SBP) /\ InByCode(list, BP_DBP)
    THEN AddToGroup(g, "Blood Pressure (mmHg)",
                    <<by_code(list, BP_SBP), by_code(list, BP_DBP)>>,
                    {BP_SBP, BP_DBP})
    ELSE LET g1 == IF InByCode(list, BP_SBP)
                   THEN AddToGroup(g, "BP (Systolic)",
                                   <<by_code(list, BP_SBP)>>, {BP_SBP})
                   ELSE g
         IN  IF InByCode(list, BP_DBP)
             THEN AddToGroup(g1, "BP (Diastolic)",
                             <<by_code(list, BP_DBP)>>, {BP_DBP})
             ELSE g1

\* for code, title in titles.items(): if code in by_code: ...   (steps 2, 3)
RECURSIVE StepTitles(_, _, _)
StepTitles(list, titles, g) ==
    IF titles = <<>> THEN g
    ELSE LET code == Head(titles)[1]
             title == Head(titles)[2]
             g1 == IF InByCode(list, code)
                   THEN AddToGroup(g, title, <<by_code(list, code)>>, {code})
                   ELSE g
         IN  StepTitles(list, Tail(titles), g1)

\* for code, title in titles.items():
\*     if code in by_code and code not in used_codes: ...     (steps 4, 6, 7)
RECURSIVE StepTitlesUnclaimed(_, _, _)
StepTitlesUnclaimed(list, titles, g) ==
    IF titles = <<>> THEN g
    ELSE LET code == Head(titles)[1]
             title == Head(titles)[2]
             g1 == IF InByCode(list, code) /\ code \notin g.used_codes
                   THEN AddToGroup(g, title, <<by_code(list, code)>>, {code})
                   ELSE g
         IN  StepTitlesUnclaimed(list, Tail(titles), g1)

\* A variant of step 5 that places creatinine without looking at used_codes.
StepRenal_NoUsedCheck(list, g) ==
    LET g1 == IF InByCode(list, "38483-4")
              THEN AddToGroup(g, "Creatinine (mg/dL)",
                              <<by_code(list, "38483-4")>>, {"38483-4"})
              ELSE g
    IN  IF InByCode(list, "33914-3")
        THEN AddToGroup(g1, "eGFR (mL/min/1.73m2)",
                        <<by_code(list, "33914-3")>>, {"33914-3"})
        ELSE g1

\* 5) Renal function
StepRenal(list, g) ==
    LET g1 == IF InByCode(list, "38483-4") /\ "38483-4" \notin g.used_codes
              THEN AddToGroup(g, "Creatinine (mg/dL)",
                              <<by_code(list, "38483-4")>>, {"38483-4"})
              ELSE g
    IN  IF InByCode(list, "33914-3")
        THEN AddToGroup(g1, "eGFR (mL/min/1.73m2)",
                        <<by_code(list, "33914-3")>>, {"33914-3"})
        ELSE g1

\* 7) Surveys/PRO/SDOH (optional)
StepSurveys(list, surveys, g) ==
    IF surveys THEN StepTitlesUnclaimed(list, survey_titles, g) ELSE g

\* f"{d['label']}{unit}" with unit = f" ({d['units'][0]})" if d.get("units")
FallbackTitle(d) ==
    IF d.units /= <<>> THEN d.label \o " (" \o d.units[1] \o ")" ELSE d.label

\* 8) Anything else -> one chart per code
RECURSIVE StepFallback(_, _)
StepFallback(rest, g) ==
    IF rest = <<>> THEN g
    ELSE LET d == Head(rest)
             g1 == IF d.code \notin g.used_codes
                   THEN AddToGroup(g, FallbackTitle(d), <<d>>, {d.code})
                   ELSE g
         IN  StepFallback(Tail(rest), g1)

group_chartables(list, surveys) ==
    LET g1 == StepBloodPressure(list, EmptyGrouping)
        g2 == StepTitles(list, vit_titles, g1)
        g3 == StepTitles(list, lipid_titles, g2)
        g4 == StepTitlesUnclaimed(list, bmp_titles, g3)
        g5 == StepRenal(list, g4)
        g6 == StepTitlesUnclaimed(list, liver_titles, g5)
        g7 == StepSurveys(list, surveys, g6)
        g8 == StepFallback(list, g7)
    IN  g8.groups

(***************************************************************************)
(* get_chartable_codes_for_patient: the records                            *)
(*                                                                         *)
(* A timestamp string is absent (None), unparsable, or an ISO-8601 string  *)
(* [h, off]: h is the wall-clock time it spells, in hours since            *)
(* 2020-01-01T00:00, and off its zone suffix: none, "Z" or "+01:00".       *)
(***************************************************************************)
HoursPerDay == 24

NoTime == [kind |-> "none", h |-> 0, off |-> ""]
BadTime == [kind |-> "bad", h |-> 0, off |-> ""]
Iso(h, off) == [kind |-> "iso", h |-> h, off |-> off]

\* The datetime a parse gives: t is the wall-clock hour of a naive datetime
\* and the UTC hour of an aware one.
NoneDt == [isNone |-> TRUE, t |-> 0, aware |-> FALSE]
Dt(t, aware) == [isNone |-> FALSE, t |-> t, aware |-> aware]

\* datetime.fromisoformat(t.replace("Z", "+00:00")); None on an exception
fromisoformat(s) ==
    IF s.kind /= "iso" THEN NoneDt
    ELSE IF s.off = "" THEN Dt(s.h, FALSE)
    ELSE IF s.off = "Z" THEN Dt(s.h, TRUE)
    ELSE Dt(s.h - 1, TRUE)

\* t = o.get("effectiveDateTime") or o.get("issued"): an unparsable
\* effectiveDateTime is a non-empty string, so it is the one chosen.
_parse_dt(o) ==
    LET t == IF o.effectiveDateTime.kind /= "none" THEN o.effectiveDateTime
             ELSE o.issued
    IN  IF t.kind = "none" THEN NoneDt ELSE fromisoformat(t)

\* valueQuantity: absent, without a "value" key, or with one whose content
\* is a number ("num") or something else ("nonnum").
NoQuantity == [kind |-> "absent", value |-> "", unit |-> "", code |-> ""]
Quantity(kind, value, unit, ucode) ==
    [kind |-> kind, value |-> value, unit |-> unit, code |-> ucode]

\* (x.get("code", {}).get("coding") or [{}])[0]: code and display are ""
\* when the key is missing.
Coding(code, display) == [code |-> code, display |-> display]

Component(coding, vq) == [coding |-> coding, valueQuantity |-> vq]

Observation(eff, iss, coding, vq, comps) ==
    [effectiveDateTime |-> eff, issued |-> iss, coding |-> coding,
     valueQuantity |-> vq, component |-> comps]

\* vq and "value" in vq
HasValue(vq) == vq.kind \in {"num", "nonnum"}

\* unit_txt = vq.get("unit") or vq.get("code") or ""
unit_txt(vq) == IF vq.unit /= "" THEN vq.unit ELSE vq.code

\* One appended point with the display and unit counted along with it.
Point(coding, dt, vq) ==
    [code |-> coding.code, dt |-> dt, value |-> vq.value,
     display |-> coding.display, unit |-> unit_txt(vq)]

\* The points one value (top-level or component) adds: lines 422-430 and
\* 433-441.
ValuePoints(coding, vq, dt) ==
    IF HasValue(vq) /\ coding.code /= "" /\ ~dt.isNone
    THEN <<Point(coding, dt, vq)>>
    ELSE <<>>

RECURSIVE ComponentPoints(_, _)
ComponentPoints(comps, dt) ==
    IF comps = <<>> THEN <<>>
    ELSE ValuePoints(Head(comps).coding, Head(comps).valueQuantity, dt)
         \o ComponentPoints(Tail(comps), dt)

\* The body of "for o in obs": the top-level value, then the components.
ObservationPoints(o) ==
    LET dt == _parse_dt(o)
    IN  ValuePoints(o.coding, o.valueQuantity, dt)
        \o ComponentPoints(o.component, dt)

RECURSIVE AllPoints(_)
AllPoints(list) ==
    IF list = <<>> THEN <<>>
    ELSE ObservationPoints(Head(list)) \o AllPoints(Tail(list))

\* points.keys() in insertion order: the codes in order of first point.
RECURSIVE FirstSeen(_, _)
FirstSeen(pts, known) ==
    IF pts = <<>> THEN <<>>
    ELSE IF Head(pts).code \in known THEN FirstSeen(Tail(pts), known)
    ELSE <<Head(pts).code>>
         \o FirstSeen(Tail(pts), known \cup {Head(pts).code})

\* points[code]
PointsOf(pts, c) == SelectSeq(pts, LAMBDA p : p.code = c)

(***************************************************************************)
(* get_chartable_codes_for_patient: thresholds, labels, ordering           *)
(***************************************************************************)
\* Comparing two datetimes raises TypeError when one is naive and the other
\* aware; a sort of two or more points compares across any such mix.
MixedAwareness(pts) ==
    \E i, j \in DOMAIN pts : pts[i].dt.aware /= pts[j].dt.aware

\* pts.sort(key=lambda x: x[0]): stable, ascending by datetime.
RECURSIVE InsertPoint(_, _)
InsertPoint(sorted, p) ==
    IF sorted = <<>> THEN <<p>>
    ELSE IF p.dt.t < Head(sorted).dt.t THEN <<p>> \o sorted
    ELSE <<Head(sorted)>> \o InsertPoint(Tail(sorted), p)

RECURSIVE SortPoints(_, _)
SortPoints(done, rest) ==
    IF rest = <<>> THEN done
    ELSE SortPoints(InsertPoint(done, Head(rest)), Tail(rest))

\* A day count rounded to the nearest day instead.
span_days_Rounded(sorted) ==
    ((sorted[Len(sorted)].dt.t - sorted[1].dt.t) + 12) \div HoursPerDay

\* (pts[-1][0] - pts[0][0]).days: timedelta.days is the floor of the day
\* count.
span_days(sorted) ==
    (sorted[Len(sorted)].dt.t - sorted[1].dt.t) \div HoursPerDay

\* Counter over the non-empty strings of a list: <<string, n>> pairs in
\* order of first occurrence.
RECURSIVE CounterAdd(_, _)
CounterAdd(counter, v) ==
    IF counter = <<>> THEN << <<v, 1>> >>
    ELSE IF Head(counter)[1] = v
         THEN << <<v, Head(counter)[2] + 1>> >> \o Tail(counter)
         ELSE <<Head(counter)>> \o CounterAdd(Tail(counter), v)

RECURSIVE CounterOf(_, _)
CounterOf(counter, strings) ==
    IF strings = <<>> THEN counter
    ELSE IF Head(strings) = "" THEN CounterOf(counter, Tail(strings))
    ELSE CounterOf(CounterAdd(counter, Head(strings)), Tail(strings))

\* Counter.most_common(): by count descending, equal counts in insertion
\* order.
\* A ranking that puts an entry before the entries of equal count.
RECURSIVE InsertCount_TieLast(_, _)
InsertCount_TieLast(sorted, e) ==
    IF sorted = <<>> THEN <<e>>
    ELSE IF e[2] >= Head(sorted)[2] THEN <<e>> \o sorted
    ELSE <<Head(sorted)>> \o InsertCount_TieLast(Tail(sorted), e)

RECURSIVE InsertCount(_, _)
InsertCount(sorted, e) ==
    IF sorted = <<>> THEN <<e>>
    ELSE IF e[2] > Head(sorted)[2] THEN <<e>> \o sorted
    ELSE <<Head(sorted)>> \o InsertCount(Tail(sorted), e)

RECURSIVE most_common(_, _)
most_common(done, rest) ==
    IF rest = <<>> THEN done
    ELSE most_common(InsertCount(done, Head(rest)), Tail(rest))

Displays(pts) == [i \in DOMAIN pts |-> pts[i].display]
Units(pts) == [i \in DOMAIN pts |-> pts[i].unit]

\* labels[code].most_common(1)[0][0] if labels[code] else f"LOINC {code}"
LabelOf(c, pts) ==
    LET labels == CounterOf(<<>>, Displays(pts))
    IN  IF labels /= <<>> THEN most_common(<<>>, labels)[1][1]
        ELSE "LOINC " \o c

\* [u for u, _ in units_seen[code].most_common()]
UnitsOf(pts) ==
    LET ranked == most_common(<<>>, CounterOf(<<>>, Units(pts)))
    IN  [i \in DOMAIN ranked |-> ranked[i][1]]

\* The codes of the model in the order Python compares their strings.
SortedCodes == <<"718-7", "8462-4", "8480-6", "85354-9">>

CodeIndex(c) == CHOOSE i \in DOMAIN SortedCodes : SortedCodes[i] = c

\* A key that leaves the code out.
KeyLess_CountOnly(d1, d2) == d1.count > d2.count

\* key=lambda d: (-d["count"], d["code"])
KeyLess(d1, d2) ==
    \/ d1.count > d2.count
    \/ d1.count = d2.count /\ CodeIndex(d1.code) < CodeIndex(d2.code)

\* out.sort(key=...): stable, ascending by key.
RECURSIVE InsertSeries(_, _)
InsertSeries(sorted, d) ==
    IF sorted = <<>> THEN <<d>>
    ELSE IF KeyLess(d, Head(sorted)) THEN <<d>> \o sorted
    ELSE <<Head(sorted)>> \o InsertSeries(Tail(sorted), d)

RECURSIVE SortSeries(_, _)
SortSeries(done, rest) ==
    IF rest = <<>> THEN done
    ELSE SortSeries(InsertSeries(done, Head(rest)), Tail(rest))

\* The outcome of a call: a returned list, or an exception.
Returned(out) == [status |-> "returned", out |-> out]
Raised == [status |-> "raised", out |-> <<>>]

\* for code, pts in points.items(): one round of the loop over the codes;
\* acc is Returned(out so far) or Raised.
RECURSIVE FilterCodes(_, _, _, _, _)
FilterCodes(codes, pts, mp, ms, acc) ==
    IF codes = <<>> \/ acc.status = "raised" THEN acc
    ELSE LET c == Head(codes)
             cpts == PointsOf(pts, c)
             sorted == SortPoints(<<>>, cpts)
             span == span_days(sorted)
         IN  IF Len(cpts) < mp
             THEN FilterCodes(Tail(codes), pts, mp, ms, acc)
             ELSE IF Len(cpts) >= 2 /\ MixedAwareness(cpts)
             THEN Raised
             ELSE IF span < ms
             THEN FilterCodes(Tail(codes), pts, mp, ms, acc)
             ELSE FilterCodes(Tail(codes), pts, mp, ms,
                     Returned(Append(acc.out,
                         [code |-> c, label |-> LabelOf(c, cpts),
                          units |-> UnitsOf(cpts), count |-> Len(cpts),
                          span_days |-> span])))

\* get_chartable_codes_for_patient(pid, min_points, min_span_days, obs=list)
get_chartable_codes_for_patient(list, mp, ms) ==
    LET pts == AllPoints(list)
        acc == FilterCodes(FirstSeen(pts, {}), pts, mp, ms, Returned(<<>>))
    IN  IF acc.status = "raised" THEN Raised
        ELSE Returned(SortSeries(<<>>, acc.out))

(***************************************************************************)
(* Values of the variables a specification does not use.                   *)
(***************************************************************************)
NoGroups == [t \in {} |-> <<>>]
NoResult == [status |-> "none", out |-> <<>>]

IdleGroup ==
    /\ chartable_list = <<>>
    /\ include_surveys = FALSE
    /\ groups = NoGroups

IdleClassify ==
    /\ obs = <<>>
    /\ min_points = 0
    /\ min_span_days = 0
    /\ result = NoResult
    /\ raised = <<0, 0>>
    /\ result2 = NoResult

IdleFetch ==
    /\ server = <<>>
    /\ categories = <<>>
    /\ sample = 0
    /\ cat_i = 0
    /\ page_i = 0
    /\ fetched = <<>>
    /\ returns = <<>>
    /\ all_obs = <<>>
    /\ requests = <<>>

IdleFilename ==
    /\ chart_title = <<>>
    /\ platform = "posix"
    /\ filename = <<>>

NoCounts == [t \in {} |-> 0]

IdleCounts ==
    /\ seen = 0
    /\ counts = NoCounts

IdleMaterialize ==
    /\ dateutil = FALSE
    /\ code_set = {}
    /\ series = NoResult

(***************************************************************************)
(* SpecGroup: one call of group_chartables on any list of at most          *)
(* MaxSeries series, with either value of include_surveys.                 *)
(***************************************************************************)
InitGroup ==
    /\ pc = "group_call"
    /\ chartable_list \in SeqsUpTo(CandidateSeries, MaxSeries)
    /\ include_surveys \in BOOLEAN
    /\ groups = NoGroups
    /\ IdleClassify
    /\ IdleFetch
    /\ IdleFilename
    /\ IdleCounts
    /\ IdleMaterialize

GroupChartables ==
    /\ pc = "group_call"
    /\ groups' = group_chartables(chartable_list, include_surveys)
    /\ pc' = "group_done"
    /\ UNCHANGED <<chartable_list, include_surveys>>
    /\ UNCHANGED classifyVars
    /\ UNCHANGED fetchVars
    /\ UNCHANGED filenameVars
    /\ UNCHANGED countVars
    /\ UNCHANGED materializeVars

NextGroup == GroupChartables

SpecGroup == InitGroup /\ [][NextGroup]_vars

\* The codes of the input list, and where a code sits in the returned groups.
InputCodes == {chartable_list[i].code : i \in DOMAIN chartable_list}

Places(c) ==
    {<<t, i>> \in UNION {{t} \X DOMAIN groups[t] : t \in DOMAIN groups} :
        groups[t][i].code = c}

GroupedCount ==
    Cardinality(UNION {{t} \X DOMAIN groups[t] : t \in DOMAIN groups})

C2_BloodPressureGroup ==
    (pc = "group_done" /\ BP_SBP \in InputCodes /\ BP_DBP \in InputCodes) =>
        /\ "Blood Pressure (mmHg)" \in DOMAIN groups
        /\ groups["Blood Pressure (mmHg)"] =
              <<by_code(chartable_list, BP_SBP),
                by_code(chartable_list, BP_DBP)>>
        /\ \A t \in DOMAIN groups \ {"Blood Pressure (mmHg)"} :
              \A i \in DOMAIN groups[t] :
                  groups[t][i].code \notin {BP_SBP, BP_DBP}

\* C7: with include_surveys False no survey code sits in any returned group.
C7_SurveysExcluded ==
    (pc = "group_done" /\ ~include_surveys) =>
        \A t \in DOMAIN groups : \A i \in DOMAIN groups[t] :
            groups[t][i].code \notin SURVEYS

\* The codes the priority steps 1-7 look for.
TitleCodes(titles) == {titles[i][1] : i \in DOMAIN titles}

PriorityCodes(surveys) ==
    {BP_SBP, BP_DBP, "38483-4", "33914-3"}
        \cup TitleCodes(vit_titles) \cup TitleCodes(lipid_titles)
        \cup TitleCodes(bmp_titles) \cup TitleCodes(liver_titles)
        \cup (IF surveys THEN TitleCodes(survey_titles) ELSE {})

\* C14: every input code that no priority step claims sits alone in a group
\* titled by its own label and first unit, so no group holds two leftover
\* series and no leftover series sits in a priority group.
C14_FallbackAlone ==
    pc = "group_done" =>
        \A c \in InputCodes \ PriorityCodes(include_surveys) :
            \E t \in DOMAIN groups :
                /\ Len(groups[t]) = 1
                /\ groups[t][1].code = c
                /\ t = FallbackTitle(groups[t][1])

(***************************************************************************)
(* SpecClassify: one call of get_chartable_codes_for_patient on a          *)
(* pre-fetched list (at most MaxObs records of CandidateObs, or at most     *)
(* MaxLongObs records of LongCandidateObs), then a second call on the same *)
(* records with thresholds that are not lower.                             *)
(***************************************************************************)
Systolic == Coding("8480-6", "Systolic Blood Pressure")
Hemoglobin == Coding("718-7", "Hemoglobin")
mmHg(v) == Quantity("num", v, "mm[Hg]", "mm[Hg]")
gdL(v) == Quantity("num", v, "", "g/dL")

\* The records the inputs are drawn from.  Hours: 167 = 6 days 23 hours,
\* 1080 = 45 days (2020-02-15).
CandidateObs == {
    Observation(Iso(0, "Z"), NoTime, Systolic, mmHg("120"), <<>>),
    Observation(Iso(167, "Z"), NoTime, Systolic, mmHg("122"), <<>>),
    Observation(Iso(1081, "+01:00"), Iso(0, "Z"), Systolic, mmHg("119"),
                <<>>),
    \* a date-time without zone: naive
    Observation(Iso(24, ""), NoTime, Systolic, mmHg("121"), <<>>),
    \* issued only
    Observation(NoTime, Iso(168, "Z"), Hemoglobin, gdL("14"), <<>>),
    Observation(Iso(336, "Z"), NoTime, Hemoglobin, gdL("13"), <<>>),
    \* a value that is not a number
    Observation(Iso(0, "Z"), NoTime, Hemoglobin,
                Quantity("nonnum", "high", "g/dL", ""), <<>>),
    \* unparsable effectiveDateTime next to a good issued
    Observation(BadTime, Iso(1080, "Z"), Hemoglobin, gdL("15"), <<>>),
    \* a panel: a top-level quantity without a value, and components with
    \* another display, without display, without code, without quantity
    Observation(Iso(167, "Z"), NoTime,
                Coding("85354-9", "Blood Pressure"),
                Quantity("novalue", "", "mm[Hg]", ""),
                <<Component(Coding("8480-6", "SBP"), mmHg("118")),
                  Component(Coding("8462-4", ""), mmHg("80")),
                  Component(Coding("", ""), mmHg("99")),
                  Component(Coding("8462-4", ""), NoQuantity)>>) }

\* The records the longer lists are drawn from: one code with an aware and
\* a naive timestamp, another code with aware timestamps only.
LongCandidateObs == {
    Observation(Iso(0, "Z"), NoTime, Systolic, mmHg("120"), <<>>),
    Observation(Iso(24, ""), NoTime, Systolic, mmHg("121"), <<>>),
    Observation(Iso(336, "Z"), NoTime, Hemoglobin, gdL("13"), <<>>) }

\* The thresholds tried.  min_points starts at 1: every code of points has
\* a point, so 0 filters as 1 does.
SpanThresholds == {0, 7, 45}

InitClassify ==
    /\ pc = "classify_call"
    /\ obs \in SeqsUpTo(CandidateObs, MaxObs)
              \cup SeqsUpTo(LongCandidateObs, MaxLongObs)
    /\ min_points \in 1..MaxMinPoints
    /\ min_span_days \in SpanThresholds
    /\ result = NoResult
    /\ raised = <<0, 0>>
    /\ result2 = NoResult
    /\ IdleGroup
    /\ IdleFetch
    /\ IdleFilename
    /\ IdleCounts
    /\ IdleMaterialize

Classify ==
    /\ pc = "classify_call"
    /\ result' = get_chartable_codes_for_patient(obs, min_points,
                                                 min_span_days)
    /\ pc' = "classify_done"
    /\ UNCHANGED <<obs, min_points, min_span_days, raised, result2>>
    /\ UNCHANGED groupVars
    /\ UNCHANGED fetchVars
    /\ UNCHANGED filenameVars
    /\ UNCHANGED countVars
    /\ UNCHANGED materializeVars

ClassifyRaised ==
    /\ pc = "classify_done"
    /\ \E mp \in min_points..MaxMinPoints :
       \E ms \in {x \in SpanThresholds : x >= min_span_days} :
          /\ raised' = <<mp, ms>>
          /\ result2' = get_chartable_codes_for_patient(obs, mp, ms)
    /\ pc' = "raised_done"
    /\ UNCHANGED <<obs, min_points, min_span_days, result>>
    /\ UNCHANGED groupVars
    /\ UNCHANGED fetchVars
    /\ UNCHANGED filenameVars
    /\ UNCHANGED countVars
    /\ UNCHANGED materializeVars

NextClassify == Classify \/ ClassifyRaised

SpecClassify == InitClassify /\ [][NextClassify]_vars

ClassifyDone == pc \in {"classify_done", "raised_done"}

OutCodes(r) == {r.out[i].code : i \in DOMAIN r.out}

\* The points the aggregation holds for a code, and the codes that have any.
CodePoints(c) == PointsOf(AllPoints(obs), c)

PointCodes == {p.code : p \in Range(AllPoints(obs))}

MaxOf(S) == CHOOSE x \in S : \A y \in S : y <= x
MinOf(S) == CHOOSE x \in S : \A y \in S : x <= y

\* Hours between the earliest and the latest point of a code.
HourSpan(c) ==
    LET T == {p.dt.t : p \in Range(CodePoints(c))}
    IN  MaxOf(T) - MinOf(T)

\* C3: a code is in the output of get_chartable_codes_for_patient if and
\* only if it has at least min_points points spanning at least
\* min_span_days days, and every emitted series reports such a count and
\* span.
C3_ThresholdsIff ==
    ClassifyDone =>
        /\ \A c \in PointCodes :
              c \in OutCodes(result) <=>
                  /\ Len(CodePoints(c)) >= min_points
                  /\ HourSpan(c) >= min_span_days * HoursPerDay
        /\ \A i \in DOMAIN result.out :
              /\ result.out[i].count >= min_points
              /\ result.out[i].span_days >= min_span_days

\* C4: the returned list is strictly ordered by count descending, then code
\* ascending, which leaves no two entries with the same code.
C4_StrictlyOrdered ==
    (ClassifyDone /\ result.status = "returned") =>
        \A i, j \in DOMAIN result.out :
            i < j =>
                \/ result.out[i].count > result.out[j].count
                \/ /\ result.out[i].count = result.out[j].count
                   /\ CodeIndex(result.out[i].code)
                          < CodeIndex(result.out[j].code)

\* C4 witness: two emitted series with the same count whose codes were
\* first met in the opposite order.
C4_Witness ==
    /\ ClassifyDone
    /\ result.status = "returned"
    /\ Len(result.out) >= 2
    /\ result.out[1].count = result.out[2].count
    /\ FirstSeen(AllPoints(obs), {})[1] = result.out[2].code

\* C5: the codes returned under raised thresholds are among the codes
\* returned under the lower ones.
C5_ThresholdMonotone ==
    pc = "raised_done" => OutCodes(result2) \subseteq OutCodes(result)

\* A record without a usable timestamp or without any numeric value.
Malformed(o) ==
    \/ _parse_dt(o).isNone
    \/ /\ o.valueQuantity.kind /= "num"
       /\ \A i \in DOMAIN o.component :
              o.component[i].valueQuantity.kind /= "num"

\* C6: the aggregation never raises, and the records without a usable
\* timestamp or numeric value add nothing: the outcome is the one of the
\* other records alone.
C6_NeverAborts ==
    ClassifyDone =>
        /\ result.status = "returned"
        /\ result = get_chartable_codes_for_patient(
                        SelectSeq(obs, LAMBDA o : ~Malformed(o)),
                        min_points, min_span_days)

\* C10: the span_days of every emitted series is the number of whole days
\* between the earliest and the latest point of its code, the fraction
\* dropped, whatever the order of the records.
C10_SpanTruncated ==
    (ClassifyDone /\ result.status = "returned") =>
        \A i \in DOMAIN result.out :
            LET d == result.out[i]
            IN  /\ d.span_days >= 0
                /\ d.span_days * HoursPerDay <= HourSpan(d.code)
                /\ HourSpan(d.code) < (d.span_days + 1) * HoursPerDay

\* C10 witness: a series emitted with 6 days for points 6 days 23 hours
\* apart that were supplied latest first.
C10_Witness ==
    /\ ClassifyDone
    /\ result.status = "returned"
    /\ \E i \in DOMAIN result.out :
          /\ HourSpan(result.out[i].code) = 167
          /\ result.out[i].span_days = 6
          /\ LET pts == CodePoints(result.out[i].code)
             IN  pts[1].dt.t > pts[Len(pts)].dt.t

\* A second C10 case: points 45 days apart give 45.
C10_Witness45 ==
    /\ ClassifyDone
    /\ result.status = "returned"
    /\ \E i \in DOMAIN result.out :
          /\ HourSpan(result.out[i].code) = 1080
          /\ result.out[i].span_days = 45

\* The display strings of the points of a code, how often one occurs among
\* them and where it occurs first (points in the order they were met).
CodeDisplays(c) ==
    {p.display : p \in Range(CodePoints(c))} \ {""}

DisplayCount(c, x) ==
    Cardinality({i \in DOMAIN CodePoints(c) : CodePoints(c)[i].display = x})

DisplayFirst(c, x) ==
    MinOf({i \in DOMAIN CodePoints(c) : CodePoints(c)[i].display = x})

\* C11: the label of every emitted series is the display string that occurs
\* most often among the points of its code, the one met first among equally
\* frequent ones, and "LOINC <code>" when no point has a display string.
C11_LabelMajority ==
    (ClassifyDone /\ result.status = "returned") =>
        \A i \in DOMAIN result.out :
            LET d == result.out[i]
            IN  IF CodeDisplays(d.code) = {}
                THEN d.label = "LOINC " \o d.code
                ELSE /\ d.label \in CodeDisplays(d.code)
                     /\ \A y \in CodeDisplays(d.code) \ {d.label} :
                           \/ DisplayCount(d.code, d.label)
                                  > DisplayCount(d.code, y)
                           \/ /\ DisplayCount(d.code, d.label)
                                     = DisplayCount(d.code, y)
                              /\ DisplayFirst(d.code, d.label)
                                     < DisplayFirst(d.code, y)

\* C11 witness: one returned list with a series labelled by the first of
\* two equally frequent display strings and a series without any display
\* string.
C11_Witness ==
    /\ ClassifyDone
    /\ result.status = "returned"
    /\ \E i \in DOMAIN result.out :
          \E y \in CodeDisplays(result.out[i].code) \ {result.out[i].label} :
              DisplayCount(result.out[i].code, y)
                  = DisplayCount(result.out[i].code, result.out[i].label)
    /\ \E i \in DOMAIN result.out :
          /\ CodeDisplays(result.out[i].code) = {}
          /\ result.out[i].label = "LOINC 8462-4"

\* A second C11 case: the label is the majority display string although
\* another one was met first.
C11_WitnessMajority ==
    /\ ClassifyDone
    /\ result.status = "returned"
    /\ \E i \in DOMAIN result.out :
          \E y \in CodeDisplays(result.out[i].code) :
              /\ DisplayCount(result.out[i].code, y)
                     < DisplayCount(result.out[i].code, result.out[i].label)
              /\ DisplayFirst(result.out[i].code, y)
                     < DisplayFirst(result.out[i].code, result.out[i].label)

\* The timestamp of a record when the fields are tried in the order
\* effectiveDateTime, issued and the first one that parses is taken.
FirstParsable(o) ==
    IF ~fromisoformat(o.effectiveDateTime).isNone
    THEN fromisoformat(o.effectiveDateTime)
    ELSE fromisoformat(o.issued)

\* The points of the records with that timestamp.
RECURSIVE PointsByFirstParsable(_)
PointsByFirstParsable(list) ==
    IF list = <<>> THEN <<>>
    ELSE ValuePoints(Head(list).coding, Head(list).valueQuantity,
                     FirstParsable(Head(list)))
         \o ComponentPoints(Head(list).component, FirstParsable(Head(list)))
         \o PointsByFirstParsable(Tail(list))

\* C15: a record contributes nothing only when neither effectiveDateTime
\* nor issued parses: the count of every emitted series is the number of
\* points of its code timestamped by the first field that parses, and with
\* thresholds (1, 0) every code that has such a point is emitted.
C15_IssuedFallback ==
    (ClassifyDone /\ result.status = "returned") =>
        /\ \A i \in DOMAIN result.out :
              result.out[i].count =
                  Len(PointsOf(PointsByFirstParsable(obs), result.out[i].code))
        /\ (min_points = 1 /\ min_span_days = 0) =>
              \A p \in Range(PointsByFirstParsable(obs)) :
                  p.code \in OutCodes(result)

(***************************************************************************)
(* SpecFetch: get_chartable_codes_for_patient(obs=None): the records are   *)
(* fetched page by page with get_observations_for_patient, one call per    *)
(* category (or one call for all categories), each page by fhir_get.       *)
(*                                                                         *)
(* The server is the environment: it holds the patient's Observations,     *)
(* answers a search with the matching ones PageSize at a time and a next   *)
(* link while more are left, or answers with an error status.              *)
(***************************************************************************)
StatusCodes == {200, 404, 500}

Categories == {"vital-signs", "laboratory"}

Stored(resource, cats) == [resource |-> resource, category |-> cats]

CandidateStored == {
    Stored(Observation(Iso(0, "Z"), NoTime, Systolic, mmHg("120"), <<>>),
           {"vital-signs"}),
    Stored(Observation(Iso(336, "Z"), NoTime, Systolic, mmHg("122"), <<>>),
           {"vital-signs", "laboratory"}),
    Stored(Observation(Iso(336, "Z"), NoTime, Hemoglobin, gdL("13"), <<>>),
           {"laboratory"}),
    Stored(Observation(Iso(0, "Z"), NoTime, Hemoglobin, gdL("14"), <<>>),
           {}) }

\* The search result for a category ("" = no category parameter).
Matching(cat) ==
    SelectSeq(server, LAMBDA e : cat = "" \/ cat \in e.category)

\* The n-th page of the result: its entries' resources and whether the
\* bundle carries a next link.
PageEntries(cat, n) ==
    LET m == Matching(cat)
        lo == (n - 1) * PageSize + 1
        hi == IF n * PageSize < Len(m) THEN n * PageSize ELSE Len(m)
    IN  [i \in 1..(hi - lo + 1) |-> m[lo + i - 1].resource]

PageHasNext(cat, n) == Len(Matching(cat)) > n * PageSize

\* A variant that lets client errors (4xx) pass.
raise_for_status_ServerErrorsOnly(status) == status >= 500 /\ status < 600

\* r.raise_for_status(): HTTPError for the statuses 400..599.
raise_for_status(status) == status >= 400 /\ status < 600

\* fhir_get: the parsed body, or the exception.  The body of an answer
\* that is not a search bundle has no entry and no link.
fhir_get(cat, n, status) ==
    IF raise_for_status(status) THEN [raised |-> TRUE, entry |-> <<>>,
                                      next |-> FALSE]
    ELSE IF status = 200 THEN [raised |-> FALSE,
                               entry |-> PageEntries(cat, n),
                               next |-> PageHasNext(cat, n)]
    ELSE [raised |-> FALSE, entry |-> <<>>, next |-> FALSE]

\* for cat in categories / the single call without category
CallCount == IF categories /= <<>> THEN Len(categories) ELSE 1

CurrentCategory == IF categories /= <<>> THEN categories[cat_i] ELSE ""

FetchThresholds == {1, 2}

InitFetch ==
    /\ pc = "fetch_call"
    /\ server \in SeqsUpTo(CandidateStored, MaxStored)
    /\ categories \in SeqsUpTo(Categories, MaxCategories)
    /\ sample \in 1..MaxSample
    /\ min_points \in FetchThresholds
    /\ min_span_days = 0
    /\ cat_i = 1
    /\ page_i = 1
    /\ fetched = <<>>
    /\ returns = <<>>
    /\ all_obs = <<>>
    /\ requests = <<>>
    /\ obs = <<>>
    /\ result = NoResult
    /\ raised = <<0, 0>>
    /\ result2 = NoResult
    /\ IdleGroup
    /\ IdleFilename
    /\ IdleCounts
    /\ IdleMaterialize

\* One request of get_observations_for_patient's loop, with everything the
\* code does until the next request or the end of the call:
\*   out.extend(entries); stop on no next link or len(out) >= count;
\*   on return obs.extend(out) and the next category; after the last
\*   category the aggregation and the return of the series list.
\* A raising fhir_get ends get_chartable_codes_for_patient at once.
Request ==
    /\ pc = "fetch_call"
    /\ \E status \in StatusCodes :
        LET js == fhir_get(CurrentCategory, page_i, status)
            out == fetched \o js.entry
            stop == ~js.next \/ Len(out) >= sample
            collected == all_obs \o out
        IN  /\ requests' = Append(requests,
                                  [call |-> cat_i, page |-> page_i,
                                   status |-> status])
            /\ IF js.raised
               THEN /\ pc' = "fetch_raised"
                    /\ result' = Raised
                    /\ UNCHANGED <<cat_i, page_i, fetched, returns, all_obs>>
               ELSE IF ~stop
               THEN /\ page_i' = page_i + 1
                    /\ fetched' = out
                    /\ UNCHANGED <<pc, result, cat_i, returns, all_obs>>
               ELSE /\ returns' = Append(returns, Len(out))
                    /\ all_obs' = collected
                    /\ fetched' = <<>>
                    /\ page_i' = 1
                    /\ IF cat_i < CallCount
                       THEN /\ cat_i' = cat_i + 1
                            /\ UNCHANGED <<pc, result>>
                       ELSE /\ pc' = "fetch_done"
                            /\ result' = get_chartable_codes_for_patient(
                                   collected, min_points, min_span_days)
                            /\ UNCHANGED cat_i
    /\ UNCHANGED <<server, categories, sample, obs, min_points,
                   min_span_days, raised, result2>>
    /\ UNCHANGED groupVars
    /\ UNCHANGED filenameVars
    /\ UNCHANGED countVars
    /\ UNCHANGED materializeVars

NextFetch == Request

SpecFetch == InitFetch /\ [][NextFetch]_vars

FailedRequests ==
    {i \in DOMAIN requests : requests[i].status \notin 200..299}

\* C8: once a page request was answered with a non-success status, the call
\* has ended in an error: the failed request is the last one sent (no
\* retry, no further page) and no series list is returned.
C8_TransportFailureFatal ==
    FailedRequests /= {} =>
        /\ pc = "fetch_raised"
        /\ result = Raised
        /\ FailedRequests = {Len(requests)}

\* C8 witness: a failure on a later page of the second category, after
\* records were already collected.
C8_Witness ==
    /\ pc = "fetch_raised"
    /\ all_obs /= <<>>
    /\ fetched /= <<>>
    /\ requests[Len(requests)].call = 2
    /\ requests[Len(requests)].page = 2
    /\ requests[Len(requests)].status = 404

\* C9: no call of get_observations_for_patient returns more than count
\* Observations.
C9_AtMostCount ==
    \A i \in DOMAIN returns : returns[i] <= sample

\* The Observations the server holds for the patient.
ServerResources == [i \in DOMAIN server |-> server[i].resource]

\* C16: fetched by a categories list, no Observation is counted twice: the
\* count of every emitted series is at most the number of points the
\* patient's Observations hold for its code.
C16_CountedOnce ==
    (pc = "fetch_done" /\ categories /= <<>> /\ result.status = "returned") =>
        \A i \in DOMAIN result.out :
            result.out[i].count <=
                Len(PointsOf(AllPoints(ServerResources), result.out[i].code))

(***************************************************************************)
(* SpecCounts: one call of get_observation_counts_for_patient against a    *)
(* server that holds at most MaxStored Observations and sends them in      *)
(* pages of PageSize, with any answer status and any sample from 0.        *)
(***************************************************************************)
\* The category tokens of the entries of the n-th page of the unfiltered
\* search: toks, the set the code collects for each Observation.
PageCategories(n) ==
    LET lo == (n - 1) * PageSize + 1
        hi == IF n * PageSize < Len(server) THEN n * PageSize
              ELSE Len(server)
    IN  [i \in 1..(hi - lo + 1) |-> server[lo + i - 1].category]

\* for t in toks: counts[t] = counts.get(t, 0) + 1
Bump(cnt, toks) ==
    [t \in (DOMAIN cnt) \cup toks |->
        (IF t \in DOMAIN cnt THEN cnt[t] ELSE 0)
            + (IF t \in toks THEN 1 ELSE 0)]

\* for e in js.get("entry", []): count, seen += 1, break on seen >= sample
RECURSIVE ScanEntries(_, _, _)
ScanEntries(entries, st, smp) ==
    IF entries = <<>> THEN st
    ELSE LET st1 == [counts |-> Bump(st.counts, Head(entries)),
                     seen |-> st.seen + 1]
         IN  IF st1.seen >= smp THEN st1
             ELSE ScanEntries(Tail(entries), st1, smp)

InitCounts ==
    /\ pc = "counts_call"
    /\ server \in SeqsUpTo(CandidateStored, MaxStored)
    /\ sample \in 0..MaxSample
    /\ page_i = 1
    /\ requests = <<>>
    /\ seen = 0
    /\ counts = NoCounts
    /\ categories = <<>>
    /\ cat_i = 0
    /\ fetched = <<>>
    /\ returns = <<>>
    /\ all_obs = <<>>
    /\ IdleGroup
    /\ IdleClassify
    /\ IdleFilename
    /\ IdleMaterialize

\* One pass of "while True": the request, the scan of its entries and the
\* two exits (seen >= sample, no next link).
CountRequest ==
    /\ pc = "counts_call"
    /\ \E status \in StatusCodes :
        LET js == fhir_get("", page_i, status)
            entries == IF js.raised \/ status /= 200 THEN <<>>
                       ELSE PageCategories(page_i)
            st == ScanEntries(entries, [counts |-> counts, seen |-> seen],
                              sample)
        IN  /\ requests' = Append(requests,
                                  [call |-> 1, page |-> page_i,
                                   status |-> status])
            /\ IF js.raised
               THEN /\ pc' = "counts_raised"
                    /\ UNCHANGED <<seen, counts, page_i>>
               ELSE /\ seen' = st.seen
                    /\ counts' = st.counts
                    /\ IF st.seen >= sample \/ ~js.next
                       THEN /\ pc' = "counts_done"
                            /\ UNCHANGED page_i
                       ELSE /\ pc' = pc
                            /\ page_i' = page_i + 1
    /\ UNCHANGED <<server, sample, categories, cat_i, fetched, returns,
                   all_obs>>
    /\ UNCHANGED groupVars
    /\ UNCHANGED classifyVars
    /\ UNCHANGED filenameVars
    /\ UNCHANGED materializeVars

NextCounts == CountRequest

SpecCounts == InitCounts /\ [][NextCounts]_vars

\* C13: for every sample >= 0 the call processes at most sample
\* Observations, asks for no further page once sample were processed, and
\* no category count exceeds sample.
C13_AtMostSample ==
    /\ seen <= sample
    /\ \A t \in DOMAIN counts : counts[t] <= sample
    /\ (pc = "counts_call" /\ requests /= <<>>) => seen < sample

(***************************************************************************)
(* SpecFilename: one call of _safe_filename (create_charts.py) on a chart  *)
(* title, on either platform.  A string is the sequence of its characters. *)
(***************************************************************************)
\* os.sep and os.altsep ("" stands for None)
os_sep(plat) == IF plat = "nt" THEN "\\" ELSE "/"

os_altsep(plat) == IF plat = "nt" THEN "/" ELSE ""

\* str.replace for a one-character old and new string
replace(s, old, new) == [i \in DOMAIN s |-> IF s[i] = old THEN new ELSE s[i]]

\* allowed = set("abc...XYZ0123456789 -_.()+#")
allowed == {
    "a", "b", "c", "d", "e", "f", "g", "h", "i", "j", "k", "l", "m", "n",
    "o", "p", "q", "r", "s", "t", "u", "v", "w", "x", "y", "z", "A", "B",
    "C", "D", "E", "F", "G", "H", "I", "J", "K", "L", "M", "N", "O", "P",
    "Q", "R", "S", "T", "U", "V", "W", "X", "Y", "Z", "0", "1", "2", "3",
    "4", "5", "6", "7", "8", "9", " ", "-", "_", ".", "(", ")", "+", "#" }

\* "".join(ch if ch in allowed else "_" for ch in name)
Whitelist(s) == [i \in DOMAIN s |-> IF s[i] \in allowed THEN s[i] ELSE "_"]

\* The rest of s after its leading characters of the class [ _]
RECURSIVE SkipRun(_)
SkipRun(s) ==
    IF s = <<>> THEN <<>>
    ELSE IF Head(s) \in {" ", "_"} THEN SkipRun(Tail(s))
    ELSE s

\* re.sub(r"[ _]+", "_", cleaned)
RECURSIVE Collapse(_)
Collapse(s) ==
    IF s = <<>> THEN <<>>
    ELSE IF Head(s) \in {" ", "_"} THEN <<"_">> \o Collapse(SkipRun(Tail(s)))
    ELSE <<Head(s)>> \o Collapse(Tail(s))

RECURSIVE lstrip(_, _)
lstrip(s, chars) ==
    IF s = <<>> THEN <<>>
    ELSE IF Head(s) \in chars THEN lstrip(Tail(s), chars)
    ELSE s

RECURSIVE rstrip(_, _)
rstrip(s, chars) ==
    IF s = <<>> THEN <<>>
    ELSE IF s[Len(s)] \in chars THEN rstrip(SubSeq(s, 1, Len(s) - 1), chars)
    ELSE s

\* A trim of the leading edge only.
strip_LeadingOnly(s, chars) == lstrip(s, chars)

\* str.strip(chars)
strip(s, chars) == rstrip(lstrip(s, chars), chars)

_safe_filename(title, plat) ==
    LET n1 == replace(title, os_sep(plat), "_")
        n2 == IF os_altsep(plat) /= "" THEN replace(n1, os_altsep(plat), "_")
              ELSE n1
        cleaned == Whitelist(n2)
        trimmed == strip(Collapse(cleaned), {" ", "_"})
    IN  IF trimmed /= <<>> THEN trimmed ELSE <<"c", "h", "a", "r", "t">>

\* The characters the enumerated titles are made of: a letter, a digit, the
\* two characters of the class [ _], a dash, both path separators and a
\* character outside the allow-list.
TitleChars == {"B", "7", " ", "_", "-", "/", "\\", "*"}

ExampleTitle == <<"B", "P", " ", "(", "S", "y", "s", "t", "o", "l", "i", "c", ")", "/", "T", "e", "s", "t">>

ExampleFilename == <<"B", "P", "_", "(", "S", "y", "s", "t", "o", "l", "i", "c", ")", "_", "T", "e", "s", "t">>

InitFilename ==
    /\ pc = "filename_call"
    /\ chart_title \in SeqsUpTo(TitleChars, MaxTitleLen) \cup {ExampleTitle}
    /\ platform \in {"posix", "nt"}
    /\ filename = <<>>
    /\ IdleGroup
    /\ IdleClassify
    /\ IdleFetch
    /\ IdleCounts
    /\ IdleMaterialize

SafeFilename ==
    /\ pc = "filename_call"
    /\ filename' = _safe_filename(chart_title, platform)
    /\ pc' = "filename_done"
    /\ UNCHANGED <<chart_title, platform>>
    /\ UNCHANGED groupVars
    /\ UNCHANGED classifyVars
    /\ UNCHANGED fetchVars
    /\ UNCHANGED countVars
    /\ UNCHANGED materializeVars

NextFilename == SafeFilename

SpecFilename == InitFilename /\ [][NextFilename]_vars

\* C12: the returned name is non-empty, is made only of allow-list
\* characters, holds no path separator, holds no two adjacent characters of
\* the class [ _] and none at either edge, is "chart" when the title holds
\* no other allow-list character, and is BP_(Systolic)_Test for the title
\* BP (Systolic)/Test.
C12_SafeFilename ==
    pc = "filename_done" =>
        /\ filename /= <<>>
        /\ \A i \in DOMAIN filename :
              filename[i] \in allowed \ {"/", "\\"}
        /\ \A i \in 1..(Len(filename) - 1) :
              ~(filename[i] \in {" ", "_"} /\ filename[i + 1] \in {" ", "_"})
        /\ filename[1] \notin {" ", "_"}
        /\ filename[Len(filename)] \notin {" ", "_"}
        /\ (\A i \in DOMAIN chart_title :
                chart_title[i] \notin allowed \ {" ", "_"})
              => filename = <<"c", "h", "a", "r", "t">>
        /\ chart_title = ExampleTitle => filename = ExampleFilename

\* C12 witness: the example title was sanitized.
C12_Witness ==
    /\ pc = "filename_done"
    /\ chart_title = ExampleTitle
    /\ filename = ExampleFilename

\* C12 witness: a title of both path separators around kept characters, with
\* a trailing run, on the platform whose os.altsep is None.
C12_WitnessSeparators ==
    /\ pc = "filename_done"
    /\ platform = "posix"
    /\ chart_title = <<"/", "B", "\\", " ">>
    /\ filename = <<"B">>

\* C12 witness: a non-empty title of which nothing remains.
C12_WitnessChart ==
    /\ pc = "filename_done"
    /\ chart_title = <<"/", "*", " ">>
    /\ filename = <<"c", "h", "a", "r", "t">>

(***************************************************************************)
(* SpecMaterialize: get_chartable_codes_for_patient on a list of records,  *)
(* then fetch_timeseries_for_codes (create_charts.py) for the codes it     *)
(* reported, the server answering with the same records in pages of        *)
(* PageSize.  Whether dateutil is installed is a property of the build.    *)
(***************************************************************************)
\* A timestamp string that dateutil parses and fromisoformat rejects, such
\* as "5 Jan 2020": h is the hour it spells, without zone.
Loose(h) == [kind |-> "loose", h |-> h, off |-> ""]

\* dtparser.parse(t)
dtparser_parse(s) ==
    IF s.kind = "loose" THEN Dt(s.h, FALSE) ELSE fromisoformat(s)

\* _parse_when: t = obs.get("effectiveDateTime") or obs.get("issued"), then
\* dtparser.parse(t) if dtparser else datetime.fromisoformat(...)
_parse_when(o, du) ==
    LET t == IF o.effectiveDateTime.kind /= "none" THEN o.effectiveDateTime
             ELSE o.issued
    IN  IF t.kind = "none" THEN NoneDt
        ELSE IF du THEN dtparser_parse(t)
        ELSE fromisoformat(t)

\* out[ccode].append((dt, float(vq["value"]), unit)); numeric tells whether
\* float() accepts the value.
SeriesPoint(coding, dt, vq) ==
    [code |-> coding.code, dt |-> dt, value |-> vq.value,
     unit |-> unit_txt(vq), numeric |-> vq.kind = "num"]

\* if vq is not None and "value" in vq: ... if ccode in codes: append
SeriesValue(coding, vq, dt, cs) ==
    IF HasValue(vq) /\ coding.code \in cs
    THEN <<SeriesPoint(coding, dt, vq)>>
    ELSE <<>>

RECURSIVE SeriesComponents(_, _, _)
SeriesComponents(comps, dt, cs) ==
    IF comps = <<>> THEN <<>>
    ELSE SeriesValue(Head(comps).coding, Head(comps).valueQuantity, dt, cs)
         \o SeriesComponents(Tail(comps), dt, cs)

\* The body of "for e in bundle.get("entry", [])" for one resource.
SeriesOfResource(o, cs, du) ==
    LET dt == _parse_when(o, du)
    IN  IF dt.isNone THEN <<>>
        ELSE SeriesValue(o.coding, o.valueQuantity, dt, cs)
             \o SeriesComponents(o.component, dt, cs)

RECURSIVE SeriesOfEntries(_, _, _)
SeriesOfEntries(entries, cs, du) ==
    IF entries = <<>> THEN <<>>
    ELSE SeriesOfResource(Head(entries), cs, du)
         \o SeriesOfEntries(Tail(entries), cs, du)

\* The entries of the n-th bundle and whether it carries a next link.
BundleEntries(n) ==
    LET lo == (n - 1) * PageSize + 1
        hi == IF n * PageSize < Len(obs) THEN n * PageSize ELSE Len(obs)
    IN  [i \in 1..(hi - lo + 1) |-> obs[lo + i - 1]]

BundleHasNext(n) == Len(obs) > n * PageSize

\* Outcomes of fetch_timeseries_for_codes: the dict, an exception of the
\* extraction (ValueError of float(), TypeError of sort), an HTTPError.
SeriesReturned(pts) ==
    [status |-> "returned",
     out |-> [c \in {pts[i].code : i \in DOMAIN pts} |->
                 SortPoints(<<>>, PointsOf(pts, c))]]

SeriesRaised == [status |-> "raised", out |-> <<>>]

SeriesHttpError == [status |-> "http_error", out |-> <<>>]

\* for c in list(out.keys()): out[c].sort(key=lambda t: t[0]); return out
SortAndReturn(pts) ==
    IF \E c \in {pts[i].code : i \in DOMAIN pts} :
           MixedAwareness(PointsOf(pts, c))
    THEN SeriesRaised
    ELSE SeriesReturned(pts)

\* The records both extractions run over.
SeriesObs == {
    Observation(Iso(0, "Z"), NoTime, Systolic, mmHg("120"), <<>>),
    Observation(Iso(336, "Z"), NoTime, Systolic, mmHg("122"), <<>>),
    Observation(Loose(96), NoTime, Systolic, mmHg("121"), <<>>),
    Observation(Iso(168, "Z"), NoTime, Systolic,
                Quantity("nonnum", "high", "mm[Hg]", ""), <<>>),
    Observation(Iso(24, ""), NoTime, Hemoglobin, gdL("14"), <<>>),
    Observation(Iso(167, "Z"), NoTime,
                Coding("85354-9", "Blood Pressure"), NoQuantity,
                <<Component(Coding("8480-6", "SBP"), mmHg("118")),
                  Component(Coding("8462-4", ""), mmHg("80"))>>) }

InitMaterialize ==
    /\ pc = "series_classify"
    /\ obs \in SeqsUpTo(SeriesObs, MaxSeriesObs)
    /\ dateutil \in BOOLEAN
    /\ min_points \in FetchThresholds
    /\ min_span_days = 0
    /\ result = NoResult
    /\ raised = <<0, 0>>
    /\ result2 = NoResult
    /\ code_set = {}
    /\ series = NoResult
    /\ page_i = 1
    /\ fetched = <<>>
    /\ requests = <<>>
    /\ server = <<>>
    /\ categories = <<>>
    /\ sample = 0
    /\ cat_i = 0
    /\ returns = <<>>
    /\ all_obs = <<>>
    /\ IdleGroup
    /\ IdleFilename
    /\ IdleCounts

\* The classifier's pass over the records; the codes it reports are the
\* codes the materializer is asked for.
ClassifyRecords ==
    /\ pc = "series_classify"
    /\ LET r == get_chartable_codes_for_patient(obs, min_points,
                                                min_span_days)
       IN  /\ result' = r
           /\ code_set' = OutCodes(r)
           /\ pc' = IF r.status = "raised" THEN "series_classify_raised"
                    ELSE "series_call"
    /\ UNCHANGED <<obs, min_points, min_span_days, raised, result2>>
    /\ UNCHANGED <<dateutil, series>>
    /\ UNCHANGED groupVars
    /\ UNCHANGED fetchVars
    /\ UNCHANGED filenameVars
    /\ UNCHANGED countVars

\* One pass of the materializer's "while True": the request, the scan of
\* the bundle's entries, and after the last bundle the sort and the return.
FetchTimeseriesPage ==
    /\ pc = "series_call"
    /\ \E status \in StatusCodes :
        LET new == SeriesOfEntries(BundleEntries(page_i), code_set, dateutil)
            out == fetched \o new
        IN  /\ requests' = Append(requests,
                                  [call |-> 1, page |-> page_i,
                                   status |-> status])
            /\ IF raise_for_status(status)
               THEN /\ series' = SeriesHttpError
                    /\ pc' = "series_done"
                    /\ UNCHANGED <<page_i, fetched>>
               ELSE IF \E i \in DOMAIN new : ~new[i].numeric
               THEN /\ series' = SeriesRaised
                    /\ pc' = "series_done"
                    /\ UNCHANGED <<page_i, fetched>>
               ELSE IF BundleHasNext(page_i)
               THEN /\ page_i' = page_i + 1
                    /\ fetched' = out
                    /\ UNCHANGED <<pc, series>>
               ELSE /\ series' = SortAndReturn(out)
                    /\ pc' = "series_done"
                    /\ fetched' = out
                    /\ UNCHANGED page_i
    /\ UNCHANGED <<server, categories, sample, cat_i, returns, all_obs>>
    /\ UNCHANGED <<dateutil, code_set>>
    /\ UNCHANGED groupVars
    /\ UNCHANGED classifyVars
    /\ UNCHANGED filenameVars
    /\ UNCHANGED countVars

NextMaterialize == ClassifyRecords \/ FetchTimeseriesPage

SpecMaterialize == InitMaterialize /\ [][NextMaterialize]_vars

\* Ascending by timestamp.
Ascending(pts) ==
    \A i \in 1..(Len(pts) - 1) : pts[i].dt.t <= pts[i + 1].dt.t

\* C17: when every request was answered, the materializer completes, and for
\* every code the classifier reported it holds a series sorted by ascending
\* timestamp with exactly count points.
C17_ExtractionsAgree ==
    (pc = "series_done" /\ series.status /= "http_error") =>
        /\ series.status = "returned"
        /\ \A i \in DOMAIN result.out :
              /\ result.out[i].code \in DOMAIN series.out
              /\ Len(series.out[result.out[i].code]) = result.out[i].count
              /\ Ascending(series.out[result.out[i].code])

====
